---- MODULE Spec2Model ----
(***************************************************************************)
(* Model of notebooks/M3-2_Analysis.ipynb: calibration of SAXS peak        *)
(* centers, conversion to lattice-plane spacings, classification of the    *)
(* LLC phase and calculation of the lattice parameter, and the assembly of *)
(* the "Analyses" category, its serialization into the AnIML document and  *)
(* the cubic phase specification.                                          *)
(*                                                                         *)
(* Numbers.  The notebook computes in IEEE doubles.  The model computes in *)
(* exact arithmetic on the extended rationals: a value is a pair <<p, q>>  *)
(* in lowest terms with q >= 0; q = 0 encodes inf (<<1,0>>), -inf          *)
(* (<<-1,0>>) and nan (<<0,0>>).  Scattering vectors are kept in units of  *)
(* 2*pi (the model's q is the notebook's q / (2*pi)), so that              *)
(* 2*pi/(d/10) is 10/d and 2*pi/q is 1/q.  A product d * sqrt(r) is kept   *)
(* as the surd [coef |-> d, rad |-> r] and np.mean of a list as the list   *)
(* itself, so no square root is rounded.                                   *)
(***************************************************************************)
EXTENDS Integers, Sequences, FiniteSets, TLC

VARIABLES
    pc,                    \* the next cell to run, "done" or "error"
    err,                   \* the exception that stopped the run, or "none"
    standard,              \* dict_of_df[available_txt_files[0].name]["value"]
    sample,                \* dict_of_df[available_txt_files[2].name]["value"]
    d_from_literature,
    q_cholpal_literature,
    slope, intercept,
    q_corrected,
    d_measured,
    d_ratio,
    phase,
    phase_information,
    new_category,          \* content of Category(name="Analyses")
    experiment_step,       \* experiment_step.results, once read
    file,                  \* the results written to the AnIML file, if any
    exact_cubic_phase,
    miller_h, miller_k, miller_l,   \* h, k, l of the cubic phase specification
    scattering_vector,
    fit_x, fit_y,          \* x, y of the cubic phase specification
    coef,                  \* coef (with fit and r2) of the cubic phase specification
    first_run              \* the result of an earlier run in the same kernel

persistVars == <<experiment_step, file, exact_cubic_phase>>
cubicVars == <<miller_h, miller_k, miller_l, scattering_vector, fit_x, fit_y, coef>>
otherVars == <<persistVars, cubicVars, first_run>>
analysisVars == <<standard, sample, d_from_literature, q_cholpal_literature,
                  slope, intercept, q_corrected, d_measured, d_ratio, phase,
                  phase_information, new_category>>

vars == <<pc, err, analysisVars, otherVars>>

(***************************************************************************)
(* Bounds of the model.                                                    *)
(***************************************************************************)
MaxStd == 3        \* peaks of the calibration standard: at most MaxStd
MaxLit == 3        \* literature spacings: at most MaxLit
MaxRaw == 8        \* raw peak centers of the sample lie in 1..MaxRaw
MaxPeaks == 6      \* peaks of the sample: at most MaxPeaks
MaxSpacing == 40   \* spacings of the round trip: 1..MaxSpacing Angstrom
GridSteps == 100   \* ratios k/GridSteps, k in 0..GridSteps, probe the windows
MaxMiller == 3     \* candidate Miller indices: lists h, k, l of at most MaxMiller
MaxCubicPeaks == 3 \* peaks of the cubic sample: at most MaxCubicPeaks

LitValues == {0, 30, 60}   \* literature spacings (Angstrom) to draw from

(***************************************************************************)
(* Extended rational arithmetic.                                           *)
(***************************************************************************)
Abs(n) == IF n < 0 THEN -n ELSE n

RECURSIVE GCD(_, _)
GCD(a, b) == IF b = 0 THEN a ELSE GCD(b, a % b)

\* p / q in lowest terms with a positive denominator (q # 0)
RNorm(p, q) ==
    LET g == GCD(Abs(p), Abs(q))
        s == IF q < 0 THEN -1 ELSE 1
    IN  <<(s * p) \div g, (s * q) \div g>>

Num(n) == <<n, 1>>
Inf == <<1, 0>>
NegInf == <<-1, 0>>
NaN == <<0, 0>>
IsFinite(a) == a[2] # 0
IsNaN(a) == a = NaN

RAdd(a, b) == RNorm(a[1] * b[2] + b[1] * a[2], a[2] * b[2])
RSub(a, b) == RNorm(a[1] * b[2] - b[1] * a[2], a[2] * b[2])
RMul(a, b) == RNorm(a[1] * b[1], a[2] * b[2])
RNeg(a) == <<-a[1], a[2]>>

\* a / b on np.float64: a zero divisor gives inf or nan (with a
\* RuntimeWarning), never an exception
FDiv(a, b) ==
    IF IsNaN(a) \/ IsNaN(b) THEN NaN
    ELSE IF ~IsFinite(a) /\ ~IsFinite(b) THEN NaN
    ELSE IF ~IsFinite(a) THEN (IF b[1] < 0 THEN RNeg(a) ELSE a)
    ELSE IF ~IsFinite(b) THEN Num(0)
    ELSE IF b[1] = 0 THEN (IF a[1] = 0 THEN NaN
                           ELSE IF a[1] > 0 THEN Inf ELSE NegInf)
    ELSE RNorm(a[1] * b[2], a[2] * b[1])

RECURSIVE RSum(_)
RSum(s) == IF s = <<>> THEN Num(0) ELSE RAdd(Head(s), RSum(Tail(s)))

\* the strictly increasing sequences over 1..hi of length at most n
RECURSIVE SetToSeq(_)
SetToSeq(S) ==
    IF S = {} THEN <<>>
    ELSE LET m == CHOOSE x \in S : \A y \in S : x <= y
         IN  <<m>> \o SetToSeq(S \ {m})

Increasing(hi, n) ==
    {SetToSeq(S) : S \in {T \in SUBSET (1..hi) : Cardinality(T) <= n}}

SeqsUpTo(S, n) == UNION {[1..k -> S] : k \in 0..n}

(***************************************************************************)
(* Geometry functions.                                                     *)
(***************************************************************************)
\* q = (2 * np.pi) / (d / 10) on Python floats: d = 0 raises ZeroDivisionError
calculate_scattering_vector_raises(d) == d = 0

\* faulty variant: the spacing is not converted from Angstrom to nm
calculate_scattering_vector_no_unit(d) == RNorm(1, d)

calculate_scattering_vector(d) == RNorm(10, d)

\* y = m * x + b
calculate_linear_regression(m, x, b) == RAdd(RMul(m, x), b)

\* d = (2 * np.pi) / q, q an np.float64
calculate_lattice_plane(q) == FDiv(Num(1), q)

\* d_ratio = d / d_0, both np.float64
calculate_lattice_ratio(d, d_0) == FDiv(d, d_0)

(***************************************************************************)
(* np.polyfit(x, y, deg=1).  An empty x or lengths that differ raise       *)
(* TypeError.  One point: the least-squares problem has rank 1 < 2;        *)
(* polyfit solves the column-scaled system by lstsq (minimum norm), warns  *)
(* RankWarning and returns the line (y / (2 x), y / 2).  Two or more       *)
(* points with distinct x: the least-squares line.                         *)
(***************************************************************************)
polyfit(x, y) ==
    IF Len(x) = 0 \/ Len(x) # Len(y)
    THEN [ok |-> FALSE, exc |-> "TypeError", coef |-> <<>>]
    ELSE IF Len(x) = 1
    THEN [ok |-> TRUE, exc |-> "none",
          coef |-> <<FDiv(y[1], Num(2 * x[1])), FDiv(y[1], Num(2))>>]
    ELSE LET n   == Num(Len(x))
             Sx  == RSum([i \in 1..Len(x) |-> Num(x[i])])
             Sy  == RSum(y)
             Sxx == RSum([i \in 1..Len(x) |-> Num(x[i] * x[i])])
             Sxy == RSum([i \in 1..Len(x) |-> RMul(Num(x[i]), y[i])])
             m   == FDiv(RSub(RMul(n, Sxy), RMul(Sx, Sy)),
                         RSub(RMul(n, Sxx), RMul(Sx, Sx)))
             b   == FDiv(RSub(Sy, RMul(m, Sx)), n)
         IN  [ok |-> TRUE, exc |-> "none", coef |-> <<m, b>>]

(***************************************************************************)
(* determine_phase.  The tables hold 1/sqrt(n) (H1, V1) and 1/m (La); the  *)
(* model keeps n and m.  abs(r - t) < 0.03 is decided exactly; inf and nan *)
(* compare False.                                                          *)
(***************************************************************************)
H1 == <<3, 4, 7, 9>>
V1 == <<2, 3, 4, 5>>
La == <<2, 3, 4, 5>>
\* faulty variant: a tolerance of 0.05
Tolerance_wide == <<5, 100>>

Tolerance == <<3, 100>>

RLess(a, b) == a[1] * b[2] < b[1] * a[2]

\* abs(r - 1/np.sqrt(n)) < 0.03
NearInvSqrt(r, n) ==
    /\ IsFinite(r)
    /\ LET lo == RSub(r, Tolerance)
           hi == RAdd(r, Tolerance)
       IN  /\ (lo[1] <= 0 \/ n * lo[1] * lo[1] < lo[2] * lo[2])
           /\ (hi[1] > 0 /\ n * hi[1] * hi[1] > hi[2] * hi[2])

\* abs(r - 1/m) < 0.03
NearInv(r, m) ==
    /\ IsFinite(r)
    /\ LET diff == RSub(r, <<1, m>>)
       IN  RLess(<<Abs(diff[1]), diff[2]>>, Tolerance)

\* the body of the loop at index i (1-based): every branch returns
phase_at(d_ratios, i) ==
    IF NearInvSqrt(d_ratios[i], H1[i]) THEN "hexagonal"
    ELSE IF NearInvSqrt(d_ratios[i], V1[i]) THEN "cubic"
    ELSE IF NearInv(d_ratios[i], La[i]) THEN "lamellar"
    ELSE "indeterminate"

\* faulty variant: a ratio that matches no table does not end the loop, the next
\* index is tried
RECURSIVE phase_scan(_, _)
phase_scan(d_ratios, i) ==
    IF i > Len(d_ratios) \/ i > Len(H1) THEN "indeterminate"
    ELSE IF phase_at(d_ratios, i) # "indeterminate" THEN phase_at(d_ratios, i)
    ELSE phase_scan(d_ratios, i + 1)

determine_phase_scan(d_ratios) ==
    IF Len(d_ratios) = 0 THEN "None" ELSE phase_scan(d_ratios, 1)

\* an empty list: the loop body never runs and the function returns None
determine_phase(d_ratios) ==
    IF Len(d_ratios) = 0 THEN "None" ELSE phase_at(d_ratios, 1)

(***************************************************************************)
(* Lattice parameters.  d * np.sqrt(r) is the surd [coef, rad].            *)
(***************************************************************************)
\* faulty variant: the cross term h * k is left out
calculate_a_H1_no_cross(d, h, k) ==
    [coef |-> d, rad |-> RNorm(4 * (h * h + k * k), 3)]

calculate_a_H1(d, h, k) ==
    [coef |-> d, rad |-> RNorm(4 * (h * h + k * k + h * k), 3)]

\* faulty variant: l is left out
calculate_a_V1_no_l(d, h, k, l) ==
    [coef |-> d, rad |-> Num(h * h + k * k)]

calculate_a_V1(d, h, k, l) ==
    [coef |-> d, rad |-> Num(h * h + k * k + l * l)]

PyFloat(x) == [type |-> "float", x |-> x]
PyStr(s) == [type |-> "str", s |-> s]
np_mean(a) == [type |-> "float", mean_of |-> a]

hex_h == <<1, 1, 2, 2, 3>>
hex_k == <<0, 1, 0, 1, 0>>
cub_h == <<1, 1, 2, 2, 2>>
cub_k == <<0, 1, 0, 1, 2>>
cub_l == <<0, 1, 0, 1, 2>>

Returned(info) == [ok |-> TRUE, exc |-> "none", info |-> info]
Raised(e) == [ok |-> FALSE, exc |-> e, info |-> <<>>]

\* if phase == "hexagonal": h[i] with i >= len(h) raises IndexError
resolve_hexagonal(ph, d) ==
    IF Len(d) > Len(hex_h) THEN Raised("IndexError")
    ELSE Returned(<<ph, np_mean([i \in 1..Len(d) |->
                            calculate_a_H1(d[i], hex_h[i], hex_k[i])])>>)

\* elif phase == "cubic"
resolve_cubic(ph, d) ==
    IF Len(d) > Len(cub_h) THEN Raised("IndexError")
    ELSE Returned(<<ph, np_mean([i \in 1..Len(d) |->
                            calculate_a_V1(d[i], cub_h[i], cub_k[i], cub_l[i])])>>)

\* faulty variant: the spacings are averaged
resolve_lamellar_mean(ph, d) ==
    Returned(<<ph, np_mean([i \in 1..Len(d) |-> [coef |-> d[i], rad |-> Num(1)]])>>)

\* elif phase == "lamellar"
resolve_lamellar(ph, d) == Returned(<<ph, PyFloat(d[1])>>)

\* faulty variant: the label of the record is the classifier's result
resolve_else_keeps_phase(ph, d) == Returned(<<ph, PyStr("-")>>)

\* else
resolve_else(ph, d) == Returned(<<"indeterminate", PyStr("-")>>)

\* the branches on phase
resolve(ph, d) ==
    IF ph = "hexagonal" THEN resolve_hexagonal(ph, d)
    ELSE IF ph = "cubic" THEN resolve_cubic(ph, d)
    ELSE IF ph = "lamellar" THEN resolve_lamellar(ph, d)
    ELSE resolve_else(ph, d)

(***************************************************************************)
(* The notebook, cell by cell.                                             *)
(***************************************************************************)
Unset == <<>>

Fresh ==
    /\ err = "none"
    /\ standard = Unset
    /\ sample = Unset
    /\ d_from_literature = Unset
    /\ q_cholpal_literature = Unset
    /\ slope = Unset
    /\ intercept = Unset
    /\ q_corrected = Unset
    /\ d_measured = Unset
    /\ d_ratio = Unset
    /\ phase = "unset"
    /\ phase_information = Unset
    /\ new_category = <<>>
    /\ experiment_step = Unset
    /\ file = Unset
    /\ exact_cubic_phase = "unset"
    /\ miller_h = Unset
    /\ miller_k = Unset
    /\ miller_l = Unset
    /\ scattering_vector = Unset
    /\ fit_x = Unset
    /\ fit_y = Unset
    /\ coef = Unset
    /\ first_run = Unset

Init == pc = "load" /\ Fresh

Raise(e) == pc' = "error" /\ err' = e

\* The inputs of a run: the peak files and the literature list in the
\* notebook.  A second run in the same kernel reads the same inputs.
StandardFiles ==
    IF first_run = Unset THEN {[i \in 1..k |-> i] : k \in 0..MaxStd}
    ELSE {standard}

LiteratureLists ==
    IF first_run = Unset THEN SeqsUpTo(LitValues, MaxLit)
    ELSE {d_from_literature}

SampleFiles ==
    IF first_run = Unset THEN Increasing(MaxRaw, MaxPeaks) ELSE {sample}

\* new_category = Category(name="Analyses");
\* dict_of_df[...] = LorentzianReader(...).get_xc_dataframe(): the peak centers
\* of the standard (the column of the sample is drawn where it is first read)
LoadData ==
    /\ pc = "load"
    /\ \E st \in StandardFiles : standard' = st
    /\ new_category' = <<>>
    /\ pc' = "literature"
    /\ UNCHANGED <<err, sample, d_from_literature, q_cholpal_literature, slope,
                   intercept, q_corrected, d_measured, d_ratio, phase,
                   phase_information>>
    /\ UNCHANGED otherVars

\* d_from_literature = [...]; q_cholpal_literature = [calculate_scattering_vector(d) ...]
Literature ==
    /\ pc = "literature"
    /\ \E lit \in LiteratureLists :
        /\ d_from_literature' = lit
        /\ IF \E i \in 1..Len(lit) : calculate_scattering_vector_raises(lit[i])
           THEN /\ Raise("ZeroDivisionError")
                /\ UNCHANGED q_cholpal_literature
           ELSE /\ q_cholpal_literature' =
                      [i \in 1..Len(lit) |-> calculate_scattering_vector(lit[i])]
                /\ pc' = "calibrate"
                /\ UNCHANGED err
    /\ UNCHANGED <<standard, sample, slope, intercept, q_corrected, d_measured,
                   d_ratio, phase, phase_information, new_category>>
    /\ UNCHANGED otherVars

\* slope, intercept = np.polyfit(...); q_corrected = [calculate_linear_regression(...) ...]
Calibrate ==
    /\ pc = "calibrate"
    /\ LET fit == polyfit(standard, q_cholpal_literature)
       IN  IF ~fit.ok
           THEN /\ Raise(fit.exc)
                /\ UNCHANGED <<sample, slope, intercept, q_corrected>>
           ELSE \E sa \in SampleFiles :
                /\ sample' = sa
                /\ slope' = fit.coef[1]
                /\ intercept' = fit.coef[2]
                /\ q_corrected' =
                      [i \in 1..Len(sa) |->
                          calculate_linear_regression(fit.coef[1], Num(sa[i]),
                                                      fit.coef[2])]
                /\ pc' = "add_q_corrected"
                /\ UNCHANGED err
    /\ UNCHANGED <<standard, d_from_literature, q_cholpal_literature,
                   d_measured, d_ratio, phase, phase_information, new_category>>
    /\ UNCHANGED otherVars

\* faulty variant: the entries are numbered by the index of enumerate
Subcategory_index(name, text, first, values) ==
    [name |-> name,
     content |-> [i \in 1..Len(values) |->
                     [name |-> <<text, i - 1>>, value |-> values[i]]]]

\* subcategory = Category(name=...); one Parameter per value, named by the
\* f-string with number i + first; new_category.add_content(subcategory)
Subcategory(name, text, first, values) ==
    [name |-> name,
     content |-> [i \in 1..Len(values) |->
                     [name |-> <<text, (i - 1) + first>>, value |-> values[i]]]]

AddQCorrected ==
    /\ pc = "add_q_corrected"
    /\ new_category' = Append(new_category,
           Subcategory("q_corrected", "q_corrected of peak {}", 1, q_corrected))
    /\ pc' = "d_measured"
    /\ UNCHANGED <<err, standard, sample, d_from_literature, q_cholpal_literature,
                   slope, intercept, q_corrected, d_measured, d_ratio, phase,
                   phase_information>>
    /\ UNCHANGED otherVars

\* faulty variant: the spacings are appended to the list the kernel holds
DMeasured_append ==
    /\ pc = "d_measured"
    /\ d_measured' = d_measured \o [i \in 1..Len(q_corrected) |->
                                       calculate_lattice_plane(q_corrected[i])]
    /\ pc' = "add_d_measured"
    /\ UNCHANGED <<err, standard, sample, d_from_literature, q_cholpal_literature,
                   slope, intercept, q_corrected, d_ratio, phase,
                   phase_information, new_category>>
    /\ UNCHANGED otherVars

\* d_measured = [calculate_lattice_plane(q) for q in q_corrected]
DMeasured ==
    /\ pc = "d_measured"
    /\ d_measured' = [i \in 1..Len(q_corrected) |->
                         calculate_lattice_plane(q_corrected[i])]
    /\ pc' = "add_d_measured"
    /\ UNCHANGED <<err, standard, sample, d_from_literature, q_cholpal_literature,
                   slope, intercept, q_corrected, d_ratio, phase,
                   phase_information, new_category>>
    /\ UNCHANGED otherVars

AddDMeasured ==
    /\ pc = "add_d_measured"
    /\ new_category' = Append(new_category,
           Subcategory("d_measured", "d_measured of peak {}", 1, d_measured))
    /\ pc' = "d_ratio"
    /\ UNCHANGED <<err, standard, sample, d_from_literature, q_cholpal_literature,
                   slope, intercept, q_corrected, d_measured, d_ratio, phase,
                   phase_information>>
    /\ UNCHANGED otherVars

\* d_ratio = [calculate_lattice_ratio(d, d_measured[0]) for d in d_measured[1:]]
DRatio ==
    /\ pc = "d_ratio"
    /\ d_ratio' = [i \in 1..(Len(d_measured) - 1) |->
                      calculate_lattice_ratio(d_measured[i + 1], d_measured[1])]
    /\ pc' = "add_d_ratio"
    /\ UNCHANGED <<err, standard, sample, d_from_literature, q_cholpal_literature,
                   slope, intercept, q_corrected, d_measured, phase,
                   phase_information, new_category>>
    /\ UNCHANGED otherVars

AddDRatio ==
    /\ pc = "add_d_ratio"
    /\ new_category' = Append(new_category,
           Subcategory("d_ratio", "d_ratio of peaks {} and 1", 2, d_ratio))
    /\ pc' = "resolve"
    /\ UNCHANGED <<err, standard, sample, d_from_literature, q_cholpal_literature,
                   slope, intercept, q_corrected, d_measured, d_ratio, phase,
                   phase_information>>
    /\ UNCHANGED otherVars

\* phase = determine_phase(d_ratio) and the branches on phase
Resolve ==
    /\ pc = "resolve"
    /\ LET ph == determine_phase(d_ratio)
           r  == resolve(ph, d_measured)
       IN  /\ phase' = ph
           /\ IF ~r.ok
              THEN /\ Raise(r.exc)
                   /\ UNCHANGED phase_information
              ELSE /\ phase_information' = r.info
                   /\ pc' = "add_phase_information"
                   /\ UNCHANGED err
    /\ UNCHANGED <<standard, sample, d_from_literature, q_cholpal_literature,
                   slope, intercept, q_corrected, d_measured, d_ratio,
                   new_category>>
    /\ UNCHANGED otherVars

\* subcategory = Category(name="phase information"); the Parameters "phase"
\* and "lattice parameter"; new_category.add_content(subcategory)
AddPhaseInformation ==
    /\ pc = "add_phase_information"
    /\ new_category' = Append(new_category,
           [name |-> "phase information",
            content |-> <<[name |-> <<"phase">>,
                           value |-> PyStr(phase_information[1])],
                          [name |-> <<"lattice parameter">>,
                           value |-> phase_information[2]]>>])
    /\ pc' = "assembled"
    /\ UNCHANGED <<err, standard, sample, d_from_literature, q_cholpal_literature,
                   slope, intercept, q_corrected, d_measured, d_ratio, phase,
                   phase_information>>
    /\ UNCHANGED otherVars

(***************************************************************************)
(* Persistence.  experiment_step is experiment_steps[60] of the document   *)
(* read from the AnIML file; its results are read when a cell first uses   *)
(* them.  A result is [name, content]; the document on disk has one result *)
(* (the measured series) or, after an earlier analysis was added, a second *)
(* result "Analyses".                                                      *)
(***************************************************************************)
MeasuredSeries == [name |-> "Series", content |-> <<>>]

EarlierAnalyses ==
    [name |-> "Analyses",
     content |-> <<[name |-> "phase information",
                    content |-> <<[name |-> <<"phase">>,
                                   value |-> PyStr("lamellar")],
                                  [name |-> <<"lattice parameter">>,
                                   value |-> PyFloat(Num(5))]>>]>>]

DocResults == {<<MeasuredSeries>>, <<MeasuredSeries, EarlierAnalyses>>}

\* experiment_step.results as the cell finds it
ResultsRead == IF experiment_step = Unset THEN DocResults ELSE {experiment_step}

\* experiment_step.add_result(new_category)
AddResult ==
    /\ pc = "assembled"
    /\ \E results \in ResultsRead :
         experiment_step' =
             Append(results, [name |-> "Analyses", content |-> new_category])
    /\ pc' = "added"
    /\ UNCHANGED <<err, analysisVars, file, exact_cubic_phase, cubicVars, first_run>>

\* xml_string = animl_doc.toXML(); f.write(xml_string); del animl_doc, xml_string
Serialize ==
    /\ pc = "added"
    /\ file' = experiment_step
    /\ pc' = "done"
    /\ UNCHANGED <<err, analysisVars, experiment_step, exact_cubic_phase,
                   cubicVars, first_run>>

SpaceGroups == {"", "Pn3m"}   \* what the user types for exact_cubic_phase

\* exact_cubic_phase = "": the user enters the space group, or leaves it
SetExactCubicPhase ==
    /\ pc \in {"assembled", "added"}
    /\ \E v \in SpaceGroups : exact_cubic_phase' = v
    /\ pc' = "cubic_loop"
    /\ UNCHANGED <<err, analysisVars, experiment_step, file, cubicVars, first_run>>

\* for category in experiment_step.results[1].content:
\*     if category.name == "phase information": category.add_content(Parameter(...))
add_exact_cubic_phase(results, value) ==
    [results EXCEPT ![2].content =
        [i \in 1..Len(@) |->
            IF @[i].name = "phase information"
            THEN [@[i] EXCEPT !.content =
                     Append(@, [name |-> <<"exact cubic phase">>, value |-> value])]
            ELSE @[i]]]

AddExactCubicPhase ==
    /\ pc = "cubic_loop"
    /\ \E results \in ResultsRead :
         IF Len(results) < 2
         THEN /\ Raise("IndexError")
              /\ experiment_step' = results
         ELSE /\ experiment_step' =
                     add_exact_cubic_phase(results, PyStr(exact_cubic_phase))
              /\ pc' = "cubic_serialize"
              /\ UNCHANGED err
    /\ UNCHANGED <<analysisVars, file, exact_cubic_phase, cubicVars, first_run>>

\* xml_string = animl_doc.toXML(); f.write(xml_string); del animl_doc, xml_string
SerializeCubic ==
    /\ pc = "cubic_serialize"
    /\ file' = experiment_step
    /\ pc' = "done"
    /\ UNCHANGED <<err, analysisVars, experiment_step, exact_cubic_phase,
                   cubicVars, first_run>>

Next ==
    \/ LoadData
    \/ Literature
    \/ Calibrate
    \/ AddQCorrected
    \/ DMeasured
    \/ AddDMeasured
    \/ DRatio
    \/ AddDRatio
    \/ Resolve
    \/ AddPhaseInformation
    \/ AddResult
    \/ Serialize
    \/ SetExactCubicPhase
    \/ AddExactCubicPhase
    \/ SerializeCubic

Spec == Init /\ [][Next]_vars

(***************************************************************************)
(* A second run.  The analysis cells are run again from the top in the     *)
(* same kernel, on the same files: every global of the first run is still  *)
(* bound when the cells start.  first_run keeps what the first run         *)
(* produced.                                                               *)
(***************************************************************************)
Rerun ==
    /\ pc = "assembled"
    /\ first_run = Unset
    /\ first_run' = [phase |-> phase,
                     phase_information |-> phase_information,
                     new_category |-> new_category]
    /\ pc' = "load"
    /\ UNCHANGED <<err, analysisVars, persistVars, cubicVars>>

NextRerun ==
    \/ LoadData
    \/ Literature
    \/ Calibrate
    \/ AddQCorrected
    \/ DMeasured
    \/ AddDMeasured
    \/ DRatio
    \/ AddDRatio
    \/ Resolve
    \/ AddPhaseInformation
    \/ Rerun

SpecRerun == Init /\ [][NextRerun]_vars

(***************************************************************************)
(* Cubic phase specification: the candidate Miller indices h, k, l (the    *)
(* variables miller_h, miller_k, miller_l), the peaks read from the file   *)
(* of the cubic sample, x and y (fit_x, fit_y) and the linear fit.  The    *)
(* cells read no global of the analysis.  sqrt(n) is kept as the surd      *)
(* [coef |-> 1, rad |-> n], q / (2*pi) as [num |-> q, den |-> "2*pi"] and  *)
(* the fit as the data it was computed from.                               *)
(***************************************************************************)
\* d_reciprocal = peak_center / (2 * np.pi)
d_reciprocal(peak_center) == [num |-> Num(peak_center), den |-> "2*pi"]

\* sq_root = np.sqrt(h**2 + k**2 + l**2)
sqrt_miller(h, k, l) == [coef |-> Num(1), rad |-> Num(h * h + k * k + l * l)]

\* np.polyfit(x, y, 1), np.poly1d(coef), r2_score(y, fit(x)): an empty x or
\* lengths that differ raise TypeError
polyfit_r2(x, y) ==
    IF Len(x) = 0 \/ Len(x) # Len(y)
    THEN [ok |-> FALSE, exc |-> "TypeError", coef |-> <<>>]
    ELSE [ok |-> TRUE, exc |-> "none", coef |-> [polyfit_of |-> <<x, y>>]]

MillerValues == {2, 3}   \* values of the candidate h to draw from

InitCubic == pc = "miller_indices" /\ Fresh

\* h = [...]; k = [...]; l = [...]: the candidate the user enters
SetMillerIndices ==
    /\ pc = "miller_indices"
    /\ \E hs \in SeqsUpTo(MillerValues, MaxMiller),
          ks \in SeqsUpTo({1}, MaxMiller),
          ls \in SeqsUpTo({0}, MaxMiller) :
         /\ miller_h' = hs
         /\ miller_k' = ks
         /\ miller_l' = ls
    /\ pc' = "read_peaks"
    /\ UNCHANGED <<err, analysisVars, persistVars, scattering_vector, fit_x,
                   fit_y, coef, first_run>>

\* scattering_vector = peak_centers["value"].values.tolist();
\* x = [sqrt_miller(h[index], k[index], l[index]) for index, item in enumerate(h)]
\* (k[index] or l[index] beyond the end raises IndexError);
\* y = [d_reciprocal(_) for _ in scattering_vector]
ReadPeaks ==
    /\ pc = "read_peaks"
    /\ \E sv \in Increasing(MaxCubicPeaks, MaxCubicPeaks) :
         /\ scattering_vector' = sv
         /\ IF Len(miller_k) < Len(miller_h) \/ Len(miller_l) < Len(miller_h)
            THEN /\ Raise("IndexError")
                 /\ UNCHANGED <<fit_x, fit_y>>
            ELSE /\ fit_x' = [i \in 1..Len(miller_h) |->
                                 sqrt_miller(miller_h[i], miller_k[i], miller_l[i])]
                 /\ fit_y' = [i \in 1..Len(sv) |-> d_reciprocal(sv[i])]
                 /\ pc' = "fit"
                 /\ UNCHANGED err
    /\ UNCHANGED <<analysisVars, persistVars, miller_h, miller_k, miller_l,
                   coef, first_run>>

\* coef = np.polyfit(x, y, 1); fit = np.poly1d(coef); r2 = r2_score(y, fit(x))
FitCubic ==
    /\ pc = "fit"
    /\ LET res == polyfit_r2(fit_x, fit_y)
       IN  IF ~res.ok
           THEN /\ Raise(res.exc)
                /\ UNCHANGED coef
           ELSE /\ coef' = res.coef
                /\ pc' = "fitted"
                /\ UNCHANGED err
    /\ UNCHANGED <<analysisVars, persistVars, miller_h, miller_k, miller_l,
                   scattering_vector, fit_x, fit_y, first_run>>

NextCubic ==
    \/ SetMillerIndices
    \/ ReadPeaks
    \/ FitCubic

SpecCubic == InitCubic /\ [][NextCubic]_vars

(***************************************************************************)
(* Properties.                                                             *)
(***************************************************************************)
Classified == phase # "unset"
\* the resolver has bound phase_information
Resolved == phase_information # Unset
NumPeaks == Len(sample)
Positive(a) == a[1] > 0 /\ a[2] > 0

\* a calibration on at least two points with positive literature spacings,
\* and a sample whose corrected scattering vectors are all positive
SoundInput ==
    /\ Len(standard) >= 2
    /\ Len(d_from_literature) = Len(standard)
    /\ \A i \in 1..Len(d_from_literature) : d_from_literature[i] > 0
    /\ \A i \in 1..Len(q_corrected) : Positive(q_corrected[i])

\* |p/q - 1/sqrt(n)| < 3/100, for a finite ratio p/q
WindowSqrt(r, n) ==
    /\ r[2] > 0
    /\ \/ 100 * r[1] <= 3 * r[2]
       \/ n * (100 * r[1] - 3 * r[2]) * (100 * r[1] - 3 * r[2])
              < (100 * r[2]) * (100 * r[2])
    /\ 100 * r[1] + 3 * r[2] > 0
    /\ n * (100 * r[1] + 3 * r[2]) * (100 * r[1] + 3 * r[2])
           > (100 * r[2]) * (100 * r[2])

\* |p/q - 1/2| < 3/100
WindowHalf(r) ==
    /\ r[2] > 0
    /\ 47 * r[2] < 100 * r[1]
    /\ 100 * r[1] < 53 * r[2]

FirstRatioPhase(r0) ==
    IF WindowSqrt(r0, 3) THEN "hexagonal"
    ELSE IF WindowSqrt(r0, 2) THEN "cubic"
    ELSE IF WindowHalf(r0) THEN "lamellar"
    ELSE "indeterminate"

\* C1: for a non-empty list of ratios the phase is decided by the ratio at
\* index 0 alone: hexagonal if |r0 - 1/sqrt(3)| < 0.03, else cubic if
\* |r0 - 1/sqrt(2)| < 0.03, else lamellar if |r0 - 1/2| < 0.03, else
\* indeterminate; later ratios and the length of the list play no part.
C1_FirstRatioDecides ==
    (Classified /\ Len(d_ratio) >= 1) => phase = FirstRatioPhase(d_ratio[1])

\* a list whose first ratio matches nothing and whose second ratio lies in
\* the hexagonal window of index 1 has been classified
C1_Witness ==
    /\ Classified
    /\ SoundInput
    /\ Len(d_ratio) >= 2
    /\ phase = "indeterminate"
    /\ WindowSqrt(d_ratio[2], 4)

\* C2: with an empty list of ratios (a single measured peak) classification
\* fails or returns 'indeterminate', never any other value.
C2_EmptyRatiosIndeterminate ==
    (Classified /\ SoundInput /\ NumPeaks = 1 /\ Len(d_ratio) = 0)
        => (pc = "error" \/ phase = "indeterminate")

\* C3: for phase 'lamellar' the lattice parameter is exactly d_measured[0].
C3_LamellarIsFirstSpacing ==
    (Resolved /\ phase = "lamellar")
        => phase_information = <<"lamellar", PyFloat(d_measured[1])>>

\* a lamellar sample of at least three peaks whose later spacings differ
\* from the first has been resolved
C3_Witness ==
    /\ Resolved
    /\ SoundInput
    /\ phase = "lamellar"
    /\ Len(d_measured) >= 3
    /\ \A i \in 2..Len(d_measured) : d_measured[i] # d_measured[1]

HexTable == <<<<1, 0>>, <<1, 1>>, <<2, 0>>, <<2, 1>>, <<3, 0>>>>
CubTable == <<<<1, 0, 0>>, <<1, 1, 1>>, <<2, 0, 0>>, <<2, 1, 1>>, <<2, 2, 2>>>>

\* d * sqrt((4/3) * (h^2 + k^2 + h*k))
HexTerm(d, hk) ==
    [coef |-> d,
     rad |-> RNorm(4 * (hk[1] * hk[1] + hk[2] * hk[2] + hk[1] * hk[2]), 3)]

\* d * sqrt(h^2 + k^2 + l^2)
CubTerm(d, hkl) ==
    [coef |-> d,
     rad |-> <<hkl[1] * hkl[1] + hkl[2] * hkl[2] + hkl[3] * hkl[3], 1>>]

\* C4: for phase 'hexagonal' and n spacings (n <= 5) the lattice parameter
\* is the mean over i < n of d_i * sqrt((4/3)(h_i^2 + k_i^2 + h_i k_i)) with
\* (h_i, k_i) the first n entries of (1,0),(1,1),(2,0),(2,1),(3,0).
C4_HexagonalMean ==
    (Resolved /\ phase = "hexagonal")
        => /\ NumPeaks <= 5
           /\ phase_information[1] = "hexagonal"
           /\ phase_information[2] =
                 [type |-> "float",
                  mean_of |-> [i \in 1..NumPeaks |->
                                  HexTerm(d_measured[i], HexTable[i])]]

\* a hexagonal sample of five peaks has been resolved
C4_Witness == Resolved /\ SoundInput /\ phase = "hexagonal" /\ NumPeaks = 5

\* C5: for phase 'cubic' and n spacings (n <= 5) the lattice parameter is
\* the mean over i < n of d_i * sqrt(h_i^2 + k_i^2 + l_i^2) with
\* (h_i, k_i, l_i) the first n entries of
\* (1,0,0),(1,1,1),(2,0,0),(2,1,1),(2,2,2).
C5_CubicMean ==
    (Resolved /\ phase = "cubic")
        => /\ NumPeaks <= 5
           /\ phase_information[1] = "cubic"
           /\ phase_information[2] =
                 [type |-> "float",
                  mean_of |-> [i \in 1..NumPeaks |->
                                  CubTerm(d_measured[i], CubTable[i])]]

\* a cubic sample of five peaks has been resolved
C5_Witness == Resolved /\ SoundInput /\ phase = "cubic" /\ NumPeaks = 5

\* C6: for every number n >= 1 of spacings, also n > 5, a hexagonal or
\* cubic sample is resolved with exactly n Miller-index entries; the
\* resolver never fails because n differs from the table length.
C6_ResolvesAnyPeakCount ==
    (Classified /\ SoundInput /\ phase \in {"hexagonal", "cubic"})
        => /\ pc # "error"
           /\ Len(phase_information[2].mean_of) = NumPeaks

\* C7: whenever the classifier's result is none of the three phases the
\* resolver does not fail and the record is ('indeterminate', '-'); the
\* lattice parameter is '-' only when the label is 'indeterminate' and is
\* numeric for the three phases.
C7_SentinelOnlyIndeterminate ==
    /\ (Classified /\ phase \notin {"hexagonal", "cubic", "lamellar"})
          => /\ Resolved
             /\ phase_information = <<"indeterminate", PyStr("-")>>
    /\ Resolved
          => /\ phase_information[1]
                    \in {"hexagonal", "cubic", "lamellar", "indeterminate"}
             /\ (phase_information[2].type = "str")
                    <=> (phase_information[1] = "indeterminate")
             /\ phase_information[2].type = "str"
                    => phase_information[2] = PyStr("-")
             /\ phase_information[2].type \in {"str", "float"}

\* the classifier returned None (one peak, no ratio) and the record has
\* been written
C7_Witness == Resolved /\ SoundInput /\ phase = "None" /\ NumPeaks = 1

\* C8: a calibration with fewer than 2 calibration points fails; it returns
\* no (slope, intercept) and no corrected scattering vectors come of it.
C8_FewPointsFail ==
    (pc \notin {"load", "literature", "calibrate"}
       /\ (\A i \in 1..Len(d_from_literature) : d_from_literature[i] > 0)
       /\ (Len(standard) < 2 \/ Len(d_from_literature) < 2))
        => /\ pc = "error"
           /\ slope = Unset
           /\ intercept = Unset
           /\ q_corrected = Unset

\* C9: a non-positive argument makes a conversion fail: no numeric result
\* of calculate_scattering_vector(d <= 0), calculate_lattice_plane(q <= 0)
\* or calculate_lattice_ratio(d, d_0 <= 0) ever exists.
C9_NonPositiveFails ==
    /\ q_cholpal_literature # Unset
          => \A i \in 1..Len(d_from_literature) : d_from_literature[i] > 0
    /\ d_measured # Unset
          => \A i \in 1..Len(q_corrected) : Positive(q_corrected[i])
    /\ d_ratio # Unset => Positive(d_measured[1])

Group(i) == new_category[i]
GroupNames == [i \in 1..Len(new_category) |-> new_category[i].name]
Values(g) == [i \in 1..Len(g.content) |-> g.content[i].value]
Numbers(g) == [i \in 1..Len(g.content) |-> g.content[i].name[2]]
Texts(g) == {g.content[i].name[1] : i \in 1..Len(g.content)}

CountsAndValues ==
    /\ GroupNames = <<"q_corrected", "d_measured", "d_ratio", "phase information">>
    /\ Len(Group(1).content) = NumPeaks
    /\ Len(Group(2).content) = NumPeaks
    /\ Len(Group(3).content) = NumPeaks - 1
    /\ Values(Group(1)) = q_corrected
    /\ Values(Group(2)) = d_measured
    /\ \A i \in 1..(NumPeaks - 1) :
          Group(3).content[i].value = FDiv(d_measured[i + 1], d_measured[1])
    /\ Texts(Group(1)) = {"q_corrected of peak {}"}
    /\ Texts(Group(2)) = {"d_measured of peak {}"}
    /\ Texts(Group(3)) \subseteq {"d_ratio of peaks {} and 1"}
    /\ [i \in 1..2 |-> Group(4).content[i].name]
          = <<(<<"phase">>), (<<"lattice parameter">>)>>
    /\ Len(Group(4).content) = 2

\* C10 as stated: n entries in 'q_corrected' and 'd_measured', n - 1 in
\* 'd_ratio', the i-th ratio entry (i = 0..n-2) holding d_(i+1)/d_0, the
\* names carrying the index i of the claim, and 'phase information' holding
\* exactly 'phase' and 'lattice parameter'.
C10_NamesCarryIndex ==
    (pc = "assembled" /\ SoundInput /\ NumPeaks >= 2)
        => /\ CountsAndValues
           /\ Numbers(Group(1)) = [i \in 1..NumPeaks |-> i - 1]
           /\ Numbers(Group(2)) = [i \in 1..NumPeaks |-> i - 1]
           /\ Numbers(Group(3)) = [i \in 1..(NumPeaks - 1) |-> i - 1]

\* C10, amended: the same counts, order and values, and the names carry the
\* 1-based peak number: the entry of peak index i (from 0) is named
\* 'q_corrected of peak {i+1}' and 'd_measured of peak {i+1}', and the i-th
\* ratio entry (i = 0..n-2), d_(i+1)/d_0, is 'd_ratio of peaks {i+2} and 1'.
C10_NamesCarryPeakNumber ==
    (pc = "assembled" /\ NumPeaks >= 1)
        => /\ CountsAndValues
           /\ Numbers(Group(1)) = [i \in 1..NumPeaks |-> i]
           /\ Numbers(Group(2)) = [i \in 1..NumPeaks |-> i]
           /\ Numbers(Group(3)) = [i \in 1..(NumPeaks - 1) |-> i + 1]

\* a sample of at least three peaks has been assembled
C10_Witness == pc = "assembled" /\ SoundInput /\ NumPeaks >= 3

(***************************************************************************)
(* The written document.                                                   *)
(***************************************************************************)
Written == file # Unset

ExactEntry == <<"exact cubic phase">>

\* the groups of result r of the written document
Groups(r) == file[r].content

\* C11: in every written document, a "phase information" group that holds
\* an "exact cubic phase" entry has the phase "cubic" and a non-empty value
\* for the entry.
C11_ExactCubicOnlyWhenCubic ==
    (Written /\ SoundInput /\ NumPeaks >= 2) =>
        \A r \in 1..Len(file) : \A g \in 1..Len(Groups(r)) :
            Groups(r)[g].name = "phase information" =>
                \A j \in 1..Len(Groups(r)[g].content) :
                    Groups(r)[g].content[j].name = ExactEntry =>
                        /\ Groups(r)[g].content[1].value = PyStr("cubic")
                        /\ Groups(r)[g].content[j].value # PyStr("")

\* group g of the written result r carries every entry of the g-th group of
\* new_category
HoldsGroup(r, g) ==
    /\ Groups(r)[g].name = new_category[g].name
    /\ Len(Groups(r)[g].content) >= Len(new_category[g].content)
    /\ SubSeq(Groups(r)[g].content, 1, Len(new_category[g].content))
           = new_category[g].content

ContainsAnalyses ==
    \E r \in 1..Len(file) :
        /\ file[r].name = "Analyses"
        /\ Len(Groups(r)) = Len(new_category)
        /\ \A g \in 1..Len(new_category) : HoldsGroup(r, g)

\* C14: a document written in the documented cell order (a sample that is
\* not cubic: add_result and serialize, without the cubic phase
\* specification; a cubic sample: the cubic phase specification) contains
\* the "Analyses" groups of the sample.
C14_WrittenHoldsAnalyses ==
    (Written /\ SoundInput /\ (phase = "cubic" \/ exact_cubic_phase = "unset"))
        => ContainsAnalyses

\* C13: the conversions are inverse up to the unit factor 10: for a spacing
\* of A Angstrom (d = A/10 nm, d > 0),
\* calculate_lattice_plane(calculate_scattering_vector(A)) = A/10 = d
\* (evaluated where the notebook has just converted its literature
\* spacings); the same holds of every positive literature spacing converted.
C13_RoundTrip ==
    /\ pc = "calibrate" =>
           \A A \in 1..MaxSpacing :
               calculate_lattice_plane(calculate_scattering_vector(A))
                   = RNorm(A, 10)
    /\ q_cholpal_literature # Unset =>
           \A i \in 1..Len(q_cholpal_literature) :
               d_from_literature[i] > 0 =>
                   calculate_lattice_plane(q_cholpal_literature[i])
                       = RNorm(d_from_literature[i], 10)

\* three literature spacings, not all the same, have been converted
C13_Witness ==
    /\ q_cholpal_literature # Unset
    /\ Len(q_cholpal_literature) = 3
    /\ \A i \in 1..3 : d_from_literature[i] > 0
    /\ d_from_literature[1] # d_from_literature[3]

Families == {"hexagonal", "cubic", "lamellar"}

\* the test of determine_phase for family f at index i (1-based) on ratio r
Matches(f, i, r) ==
    CASE f = "hexagonal" -> NearInvSqrt(r, H1[i])
      [] f = "cubic"     -> NearInvSqrt(r, V1[i])
      [] f = "lamellar"  -> NearInv(r, La[i])

Grid == {RNorm(k, GridSteps) : k \in 0..GridSteps}

\* a grid ratio c that neither family accepts lies between a ratio accepted
\* by f and a ratio accepted by g: the windows are intervals, so the window
\* of f lies below c and the window of g above it
Separated(f, g, i) ==
    \E c \in Grid :
        /\ ~Matches(f, i, c)
        /\ ~Matches(g, i, c)
        /\ \E a \in Grid : RLess(a, c) /\ Matches(f, i, a)
        /\ \E b \in Grid : RLess(c, b) /\ Matches(g, i, b)

\* C16: at each table index i = 0..3 the acceptance windows of H1[i], V1[i]
\* and La[i] are pairwise disjoint (evaluated where the notebook has just
\* defined its functions), so a ratio matches at most one family and the
\* phase determine_phase returns is the family its first ratio matches,
\* whatever the order of the three tests.
C16_WindowsDisjoint ==
    /\ pc = "load" =>
           \A i \in 1..Len(H1) : \A f \in Families : \A g \in Families \ {f} :
               Separated(f, g, i) \/ Separated(g, f, i)
    /\ (Classified /\ Len(d_ratio) >= 1) =>
           \A f \in Families : Matches(f, 1, d_ratio[1]) => phase = f

\* a sample whose first ratio lies in the window tested last
C16_Witness ==
    /\ pc = "assembled"
    /\ SoundInput
    /\ Len(d_ratio) >= 2
    /\ phase = "lamellar"
    /\ Matches("lamellar", 1, d_ratio[1])

\* the square of the factor the resolver applies to peak j (1-based) of a
\* sample of phase f: (4/3) * N_j for hexagonal, N_j for cubic
ResolverRad(f, j) ==
    IF f = "hexagonal"
    THEN calculate_a_H1(Num(1), hex_h[j], hex_k[j]).rad
    ELSE calculate_a_V1(Num(1), cub_h[j], cub_k[j], cub_l[j]).rad

\* the radicand of the classifier's reference ratio 1/sqrt(n) at index i
\* (1-based) of the table of phase f
ClassifierRad(f, i) == IF f = "hexagonal" THEN H1[i] ELSE V1[i]

\* C17: for a hexagonal or cubic sample, spacings that follow the
\* classifier's progression exactly from the measured d_0
\* (d_(i+1)^2 = d_0^2 / n_i, i = 0..3) give the same a_i^2 at every peak:
\* d_(i+1)^2 * N_(i+1) = d_0^2 * N_0, the N of the resolver's tables.
C17_TablesAgree ==
    (Resolved /\ SoundInput /\ phase \in {"hexagonal", "cubic"}) =>
        LET d0sq == RMul(d_measured[1], d_measured[1])
        IN  \A i \in 1..Len(H1) :
                RMul(FDiv(d0sq, Num(ClassifierRad(phase, i))),
                     ResolverRad(phase, i + 1))
                    = RMul(d0sq, ResolverRad(phase, 1))

\* C12: a second run on the same standard peaks, literature spacings and
\* sample peaks, started in the kernel the first run left behind, does not
\* fail and yields the same phase, the same lattice parameter and the same
\* "Analyses" category as the first run.
C12_RerunSameResult ==
    first_run # Unset =>
        /\ pc # "error"
        /\ pc \in {"add_phase_information", "assembled"} =>
               /\ phase = first_run.phase
               /\ phase_information = first_run.phase_information
        /\ pc = "assembled" => new_category = first_run.new_category

\* the second run of a hexagonal sample of three peaks or more is assembled
C12_Witness ==
    /\ first_run # Unset
    /\ pc = "assembled"
    /\ SoundInput
    /\ NumPeaks >= 3
    /\ phase = "hexagonal"

\* C15: a fit exists only if h, k, l and the peak list have the same
\* length: whenever two of the four lengths differ the cells fail before
\* coef is bound.
C15_MismatchFails ==
    (coef # Unset /\ Len(miller_h) >= 2) =>
        /\ Len(miller_k) = Len(miller_h)
        /\ Len(miller_l) = Len(miller_h)
        /\ Len(scattering_vector) = Len(miller_h)

====
